---- MODULE Spec2Model ----
(***************************************************************************)
(* Model of the Third Ear client (static/script.js): the transcript        *)
(* buffer, the display interval that releases buffered items against the   *)
(* audio clock, the socket handlers and the process button.                *)
(*                                                                         *)
(* Times are in tenths of a second (1.0 s = 10).  One step of the model is *)
(* one task of the browser's event loop: a handler runs to completion.     *)
(***************************************************************************)
EXTENDS Integers, Sequences, FiniteSets, Bags, TLC

\* ------------------------------------------------------------------ bounds
MaxRuns == 2          \* button clicks explored
MaxEvents == 3        \* transcript events the server sends, over all runs

\* ------------------------------------------------------------ input domains
EndTimes == {10, 15, 20}            \* end_time values the server reports
ClockValues == {0, 10, 14, 16, 21}  \* values audioElement.currentTime is read at
\* The transcript payload of a message, one text per end_time.
TextAt(endTime) == IF endTime = 10 THEN "b" ELSE IF endTime = 15 THEN "c" ELSE "a"
Types == {"raw", "corrected"}
InvalidEndTimes == {-10}            \* an end_time below zero is not a playback time

\* The data object of a transcript message: well formed, with an end_time
\* that is a number but not a valid one, without end_time, or without text.
WellFormedData == {[text |-> TextAt(e), end_time |-> e] : e \in EndTimes}
InvalidEndTimeData ==
    {[text |-> TextAt(e), end_time |-> e] : e \in InvalidEndTimes}
MissingFieldData == {[text |-> TextAt(10)], [end_time |-> 10]}

NULL == 0                            \* displayInterval = null
NoRawText == "null"                  \* lastRawText = null
IdleText == "Process Sample Audio 1"
BusyText == "Processing..."

SetMax(S) == CHOOSE x \in S : \A y \in S : y <= x
Duration == SetMax(ClockValues)      \* the clock value at which playback ends

VARIABLES
    transcriptBuffer,        \* script.js:21, sequence of items
    displayInterval,         \* script.js:23, NULL or an interval handle
    timers,                  \* interval handles the browser still fires
    pendingPlays,            \* runs whose audioElement.play() promise is unsettled
    failedPlays,             \* those of them whose source the element gave up
                             \* on: such a promise can only reject
    run,                     \* number of button clicks so far
    audioTime,               \* audioElement.currentTime
    audioEnded,              \* audioElement.ended
    audioPlaying,            \* playback is advancing
    audioError,              \* the element reported an error for the current src
    socket,                  \* "connecting", "connected" or "disconnected"
    startRequests,           \* 'start_processing' emits held by the socket
    emitted,                 \* the 'start_processing' emits so far, each the
                             \* run whose play() promise made it
    serverActive,            \* streams the server is still sending: <<emitting
                             \* promise, run on screen when it emitted>>
    sent,                    \* transcript events delivered so far
    buttonDisabled,          \* processButton.disabled
    buttonText,              \* processButton.textContent
    status,                  \* statusIndicator's status type
    rawTranscriptArea,       \* lines of the raw textarea
    correctedTranscriptArea, \* lines of the corrected textarea
    interleavedContainer,    \* bubbles of the merged feed
    released,                \* history: items released since the last click
    inserted,                \* history: bag of items pushed since the last click
    errored,                 \* history: a failure handler ran since the last click
    lastRawText,             \* part_000:10, the simulation's last raw sentence
    timeouts,                \* part_000: setTimeout callbacks not yet run, each
                             \* <<time left, click that set it, its place 1..6>>
    simClicks                \* part_000: clicks on the simulation's button

vars == <<transcriptBuffer, displayInterval, timers, pendingPlays, failedPlays, run,
          audioTime, audioEnded, audioPlaying, audioError, socket,
          startRequests, emitted, serverActive, sent, buttonDisabled,
          buttonText, status, rawTranscriptArea, correctedTranscriptArea,
          interleavedContainer, released, inserted, errored>>

audioVars == <<audioTime, audioEnded, audioPlaying, audioError>>
serverVars == <<socket, startRequests, emitted, serverActive, sent>>
buttonVars == <<buttonDisabled, buttonText>>
sinkVars == <<rawTranscriptArea, correctedTranscriptArea, interleavedContainer>>
simVars == <<lastRawText, timeouts, simClicks>>

\* ------------------------------------------------------------------ helpers

\* Array.prototype.sort((a, b) => a.endTime - b.endTime): a stable sort,
\* computed as an insertion sort that places x after every item whose
\* endTime is not greater.
\* A sort that is not stable: x is placed before the items with an equal
\* endTime.
RECURSIVE InsertBeforeTies(_, _)
InsertBeforeTies(s, x) ==
    IF s = <<>> THEN <<x>>
    ELSE IF x.endTime <= s[1].endTime THEN <<x>> \o s
    ELSE <<s[1]>> \o InsertBeforeTies(Tail(s), x)

RECURSIVE InsertSorted(_, _)
InsertSorted(s, x) ==
    IF s = <<>> THEN <<x>>
    ELSE IF x.endTime < s[1].endTime THEN <<x>> \o s
    ELSE <<s[1]>> \o InsertSorted(Tail(s), x)

\* The sort left out: the array stays in arrival order.
NoSort(s) == s

RECURSIVE SortByEndTime(_)
SortByEndTime(s) ==
    IF s = <<>> THEN <<>>
    ELSE InsertSorted(SortByEndTime(SubSeq(s, 1, Len(s) - 1)), s[Len(s)])

\* The push without the sort that follows it.
PushOnly(buf, item) == Append(buf, item)

\* transcriptBuffer.push(item); transcriptBuffer.sort(...)
PushAndSort(buf, item) == SortByEndTime(Append(buf, item))

\* The loop condition without the comparison with currentTime.
IsReadyAlways(item, currentTime) == TRUE

\* The loop condition of checkBufferAndDisplay on the head of the buffer.
IsReady(item, currentTime) == item.endTime <= currentTime

\* The loop as an `if`: at most one item is shifted per tick.
PopReadyOnce(buf, currentTime) ==
    IF buf # <<>> /\ IsReady(buf[1], currentTime) THEN <<buf[1]>> ELSE <<>>

\* The while loop of checkBufferAndDisplay: the items it shifts off the front
\* of the buffer, in order, while the head is ready.
RECURSIVE PopReady(_, _)
PopReady(buf, currentTime) ==
    IF buf # <<>> /\ IsReady(buf[1], currentTime)
    THEN <<buf[1]>> \o PopReady(Tail(buf), currentTime)
    ELSE <<>>

\* The loop without the shift taking effect on the buffer.
KeepAll(buf, out) == buf

\* The buffer after the loop shifted the items `out` off its front.
AfterShift(buf, out) == SubSeq(buf, Len(out) + 1, Len(buf))

\* The self-stop condition without the audioElement.ended conjunct.
ShouldSelfStopNoEnded(buf, ended, interval) == buf = <<>> /\ interval # NULL

\* The self-stop condition of checkBufferAndDisplay (line 126).
ShouldSelfStop(buf, ended, interval) == buf = <<>> /\ ended /\ interval # NULL

\* The stop with an else branch that clears every timer when no handle is held.
StopOrClearAll(ts, interval) == IF interval = NULL THEN {} ELSE ts \ {interval}

\* if (displayInterval) { clearInterval(displayInterval); displayInterval = null; }
\* as the set of handles left firing.
StopTimers(ts, interval) == ts \ {interval}

\* appendToTextarea / addBubble for a sequence of released items.
RECURSIVE LinesOf(_, _)
LinesOf(items, type) ==
    IF items = <<>> THEN <<>>
    ELSE IF items[1].type = type
         THEN <<(<<type, items[1].text>>)>> \o LinesOf(Tail(items), type)
         ELSE LinesOf(Tail(items), type)

\* addBubble called in the raw branch only.
BubblesOfRaw(items) == LinesOf(items, "raw")

RECURSIVE BubblesOf(_)
BubblesOf(items) ==
    IF items = <<>> THEN <<>>
    ELSE <<(<<items[1].type, items[1].text>>)>> \o BubblesOf(Tail(items))

\* -------------------------------------------------------------------- Init
Init ==
    /\ transcriptBuffer = <<>>
    /\ displayInterval = NULL
    /\ timers = {}
    /\ pendingPlays = {}
    /\ failedPlays = {}
    /\ run = 0
    /\ audioTime = 0
    /\ audioEnded = FALSE
    /\ audioPlaying = FALSE
    /\ audioError = FALSE
    /\ socket = "connecting"
    /\ startRequests = {}
    /\ emitted = <<>>
    /\ serverActive = {}
    /\ sent = 0
    /\ buttonDisabled = FALSE
    /\ buttonText = IdleText
    /\ status = "idle"
    /\ rawTranscriptArea = <<>>
    /\ correctedTranscriptArea = <<>>
    /\ interleavedContainer = <<>>
    /\ released = <<>>
    /\ inserted = EmptyBag
    /\ errored = FALSE
    /\ lastRawText = NoRawText
    /\ timeouts = {}
    /\ simClicks = 0

\* ----------------------------------------------------------------- actions

\* The click handler emitting 'start_processing' itself, before play() settles.
ClickEmitsEarly ==
    /\ ~buttonDisabled
    /\ run < MaxRuns
    /\ run' = run + 1
    /\ rawTranscriptArea' = <<>>
    /\ correctedTranscriptArea' = <<>>
    /\ interleavedContainer' = <<>>
    /\ transcriptBuffer' = <<>>
    /\ timers' = StopTimers(timers, displayInterval)
    /\ displayInterval' = NULL
    /\ buttonDisabled' = TRUE
    /\ buttonText' = BusyText
    /\ status' = "processing"
    /\ audioTime' = 0
    /\ audioEnded' = FALSE
    /\ audioPlaying' = FALSE
    /\ audioError' = FALSE
    /\ pendingPlays' = pendingPlays \cup {run + 1}
    /\ emitted' = Append(emitted, run + 1)
    /\ startRequests' = IF socket = "connected" THEN startRequests
                        ELSE startRequests \cup {<<run + 1, run + 1>>}
    /\ serverActive' = IF socket = "connected"
                       THEN serverActive \cup {<<run + 1, run + 1>>}
                       ELSE serverActive
    /\ released' = <<>>
    /\ inserted' = EmptyBag
    /\ errored' = FALSE
    /\ UNCHANGED <<failedPlays, socket, sent>>
    /\ UNCHANGED simVars

\* processButton 'click' listener.  A disabled button dispatches no click.
ProcessButtonClick ==
    /\ ~buttonDisabled
    /\ run' = run + 1
    /\ rawTranscriptArea' = <<>>
    /\ correctedTranscriptArea' = <<>>
    /\ interleavedContainer' = <<>>
    /\ transcriptBuffer' = <<>>
    /\ timers' = StopTimers(timers, displayInterval)
    /\ displayInterval' = NULL
    /\ buttonDisabled' = TRUE
    /\ buttonText' = BusyText
    /\ status' = "processing"
    \* audioElement.src = ...: the element loads the new source from 0
    /\ audioTime' = 0
    /\ audioEnded' = FALSE
    /\ audioPlaying' = FALSE
    /\ audioError' = FALSE
    \* audioElement.play() returns a promise that settles in a later task
    /\ pendingPlays' = pendingPlays \cup {run + 1}
    /\ released' = <<>>
    /\ inserted' = EmptyBag
    /\ errored' = FALSE
    /\ UNCHANGED <<failedPlays, serverVars>>
    /\ UNCHANGED simVars

\* A click, of the clicks explored.
Click == run < MaxRuns /\ ProcessButtonClick

\* audioElement.play().then(...).  The promise of the run on screen resolves
\* when playback begins, which a source the element gave up on never does.
\* The promise of an earlier click is settled when the next click assigns
\* audioElement.src (HTML media element load algorithm): resolved if playback
\* had begun and its resolution was still waiting in the task queue,
\* otherwise rejected; the callback runs after the click handler.
PlayResolve(r) ==
    /\ r \in pendingPlays
    /\ r \notin failedPlays
    /\ pendingPlays' = pendingPlays \ {r}
    /\ displayInterval' = r                     \* setInterval returns a new handle
    /\ timers' = timers \cup {r}
    \* socket.emit('start_processing'): delivered at once when connected,
    \* otherwise held by the socket until it connects
    /\ emitted' = Append(emitted, r)
    /\ startRequests' = IF socket = "connected" THEN startRequests
                        ELSE startRequests \cup {<<r, run>>}
    /\ serverActive' = IF socket = "connected" THEN serverActive \cup {<<r, run>>}
                       ELSE serverActive
    /\ audioPlaying' = IF r = run THEN ~audioEnded ELSE audioPlaying
    /\ UNCHANGED <<transcriptBuffer, failedPlays, run, audioTime, audioEnded,
                   audioError, socket, sent, buttonVars, status, sinkVars,
                   released, inserted, errored>>
    /\ UNCHANGED simVars

\* audioElement.play().catch(...)
PlayReject(r) ==
    /\ r \in pendingPlays
    /\ pendingPlays' = pendingPlays \ {r}
    /\ failedPlays' = failedPlays \ {r}
    /\ status' = "error"
    /\ buttonDisabled' = FALSE
    /\ buttonText' = IdleText
    /\ timers' = StopTimers(timers, displayInterval)
    /\ displayInterval' = NULL
    /\ errored' = TRUE
    /\ UNCHANGED <<transcriptBuffer, run, audioVars, serverVars, sinkVars,
                   released, inserted>>
    /\ UNCHANGED simVars

\* checkBufferAndDisplay, called by the interval with handle h.
CheckBufferAndDisplay(h) ==
    /\ h \in timers
    /\ IF transcriptBuffer = <<>>
       THEN UNCHANGED vars                      \* early return, line 96
       ELSE LET currentTime == audioTime
                out == PopReady(transcriptBuffer, currentTime)
                rest == AfterShift(transcriptBuffer, out)
                stop == ShouldSelfStop(rest, audioEnded, displayInterval)
            IN  /\ transcriptBuffer' = rest
                /\ rawTranscriptArea' = rawTranscriptArea \o LinesOf(out, "raw")
                /\ correctedTranscriptArea' =
                       correctedTranscriptArea \o LinesOf(out, "corrected")
                /\ interleavedContainer' = interleavedContainer \o BubblesOf(out)
                /\ released' = released \o out
                /\ timers' = IF stop THEN StopTimers(timers, displayInterval)
                             ELSE timers
                /\ displayInterval' = IF stop THEN NULL ELSE displayInterval
                /\ UNCHANGED <<pendingPlays, failedPlays, run, audioVars, serverVars,
                               buttonVars, status, inserted, errored>>
    /\ UNCHANGED simVars

\* The item a handler builds from a message.  srcRun is a history field: the
\* run that was on screen when the 'start_processing' that made the server
\* send the message was emitted.
Item(type, text, endTime, s) ==
    [type |-> type, text |-> text, endTime |-> endTime, srcRun |-> s[2]]

\* A transcript message of server stream s reaches the client.
Deliverable(s) == socket = "connected" /\ s \in serverActive /\ sent < MaxEvents

\* The console.log line that opens both transcript handlers evaluates
\* data.end_time.toFixed(2) and data.text.substring(0, 50): it throws a
\* TypeError, and the handler ends there, when a field is missing.
LogThrows(data) == "end_time" \notin DOMAIN data \/ "text" \notin DOMAIN data

\* socket.on('raw_transcript_update')
RawTranscriptUpdate(s, data) ==
    /\ Deliverable(s)
    /\ sent' = sent + 1
    /\ IF LogThrows(data)
       THEN UNCHANGED <<transcriptBuffer, inserted>>
       ELSE LET item == Item("raw", data.text, data.end_time, s)
            IN  /\ transcriptBuffer' = PushAndSort(transcriptBuffer, item)
                /\ inserted' = inserted (+) SetToBag({item})
    /\ UNCHANGED <<displayInterval, timers, pendingPlays, failedPlays, run, audioVars,
                   socket, startRequests, emitted, serverActive, buttonVars,
                   status, sinkVars, released, errored>>
    /\ UNCHANGED simVars

\* socket.on('corrected_transcript_update')
CorrectedTranscriptUpdate(s, data) ==
    /\ Deliverable(s)
    /\ sent' = sent + 1
    /\ IF LogThrows(data)
       THEN UNCHANGED <<transcriptBuffer, inserted>>
       ELSE LET item == Item("corrected", data.text, data.end_time, s)
            IN  /\ transcriptBuffer' = PushAndSort(transcriptBuffer, item)
                /\ inserted' = inserted (+) SetToBag({item})
    /\ UNCHANGED <<displayInterval, timers, pendingPlays, failedPlays, run, audioVars,
                   socket, startRequests, emitted, serverActive, buttonVars,
                   status, sinkVars, released, errored>>
    /\ UNCHANGED simVars

\* processing_finished stopping the interval like processing_error does.
ProcessingFinishedStops(s) ==
    /\ socket = "connected"
    /\ s \in serverActive
    /\ serverActive' = serverActive \ {s}
    /\ status' = "finished"
    /\ timers' = StopTimers(timers, displayInterval)
    /\ displayInterval' = NULL
    /\ buttonDisabled' = FALSE
    /\ buttonText' = IdleText
    /\ UNCHANGED <<transcriptBuffer, pendingPlays, failedPlays, run, audioVars, socket,
                   startRequests, emitted, sent, sinkVars, released, inserted,
                   errored>>
    /\ UNCHANGED simVars

\* socket.on('processing_finished')
ProcessingFinished(s) ==
    /\ socket = "connected"
    /\ s \in serverActive
    /\ serverActive' = serverActive \ {s}
    /\ status' = "finished"
    /\ buttonDisabled' = FALSE
    /\ buttonText' = IdleText
    /\ UNCHANGED <<transcriptBuffer, displayInterval, timers, pendingPlays, failedPlays, run,
                   audioVars, socket, startRequests, emitted, sent, sinkVars,
                   released, inserted, errored>>
    /\ UNCHANGED simVars

\* processing_error also adding the error to the merged feed as a bubble.
ProcessingErrorWithBubble(s) ==
    /\ socket = "connected"
    /\ s \in serverActive
    /\ serverActive' = serverActive \ {s}
    /\ status' = "error"
    /\ timers' = StopTimers(timers, displayInterval)
    /\ displayInterval' = NULL
    /\ buttonDisabled' = FALSE
    /\ buttonText' = IdleText
    /\ rawTranscriptArea' = Append(rawTranscriptArea, <<"error", "ERROR">>)
    /\ correctedTranscriptArea' =
           Append(correctedTranscriptArea, <<"error", "ERROR">>)
    /\ interleavedContainer' = Append(interleavedContainer, <<"error", "ERROR">>)
    /\ errored' = TRUE
    /\ UNCHANGED <<transcriptBuffer, pendingPlays, failedPlays, run, audioVars, socket,
                   startRequests, emitted, sent, released, inserted>>
    /\ UNCHANGED simVars

\* socket.on('processing_error')
ProcessingError(s) ==
    /\ socket = "connected"
    /\ s \in serverActive
    /\ serverActive' = serverActive \ {s}
    /\ status' = "error"
    /\ timers' = StopTimers(timers, displayInterval)
    /\ displayInterval' = NULL
    /\ buttonDisabled' = FALSE
    /\ buttonText' = IdleText
    /\ rawTranscriptArea' = Append(rawTranscriptArea, <<"error", "ERROR">>)
    /\ correctedTranscriptArea' =
           Append(correctedTranscriptArea, <<"error", "ERROR">>)
    /\ errored' = TRUE
    /\ UNCHANGED <<transcriptBuffer, pendingPlays, failedPlays, run, audioVars, socket,
                   startRequests, emitted, sent, interleavedContainer, released,
                   inserted>>
    /\ UNCHANGED simVars

\* socket.on('disconnect').  The server's streams for this socket end with it;
\* the page asks for a refresh, but the client may reconnect (see Connect).
Disconnect ==
    /\ socket = "connected"
    /\ socket' = "disconnected"
    /\ serverActive' = {}
    /\ status' = "error"
    /\ timers' = StopTimers(timers, displayInterval)
    /\ displayInterval' = NULL
    /\ buttonDisabled' = IF buttonText = BusyText THEN TRUE ELSE buttonDisabled
    /\ errored' = TRUE
    /\ UNCHANGED <<transcriptBuffer, pendingPlays, failedPlays, run, audioVars, startRequests,
                   emitted, sent, buttonText, sinkVars, released, inserted>>
    /\ UNCHANGED simVars

\* socket.on('connect').  It runs when the socket first connects and again
\* each time the client, which reconnects by default, is back after a
\* disconnect.
Connect ==
    /\ socket # "connected"
    /\ socket' = "connected"
    /\ status' = "idle"
    \* the held 'start_processing' emits reach the server
    /\ serverActive' = serverActive \cup startRequests
    /\ startRequests' = {}
    /\ UNCHANGED <<transcriptBuffer, displayInterval, timers, pendingPlays, failedPlays, run,
                   audioVars, emitted, sent,
                   buttonVars, sinkVars, released, inserted, errored>>
    /\ UNCHANGED simVars

\* Playback advances: currentTime is next read at a later clock value t.
\* audioElement.ended is true exactly from the moment playback reaches the
\* end of the media; the 'ended' listener (lines 228-233) only logs.
AudioAdvance(t) ==
    /\ audioPlaying
    /\ t \in ClockValues
    /\ t > audioTime
    /\ audioTime' = t
    /\ audioEnded' = (t = Duration)
    /\ audioPlaying' = (t # Duration)
    /\ UNCHANGED <<transcriptBuffer, displayInterval, timers, pendingPlays, failedPlays, run,
                   audioError, serverVars, buttonVars, status, sinkVars,
                   released, inserted, errored>>
    /\ UNCHANGED simVars

\* audioElement 'error' listener.  A play() promise still unsettled when the
\* element reports the error will not resolve.
AudioError ==
    /\ run > 0
    /\ ~audioError
    /\ ~audioEnded
    /\ audioError' = TRUE
    /\ failedPlays' = failedPlays \cup (pendingPlays \cap {run})
    /\ audioPlaying' = FALSE
    /\ status' = "error"
    /\ timers' = StopTimers(timers, displayInterval)
    /\ displayInterval' = NULL
    /\ buttonDisabled' = FALSE
    /\ buttonText' = IdleText
    /\ errored' = TRUE
    /\ UNCHANGED <<transcriptBuffer, pendingPlays, run, audioTime, audioEnded,
                   serverVars, sinkVars, released, inserted>>
    /\ UNCHANGED simVars

Runs == 1..MaxRuns
Streams == Runs \X Runs
Messages == WellFormedData \cup InvalidEndTimeData \cup MissingFieldData

Next ==
    \/ Click
    \/ \E r \in Runs : PlayResolve(r)
    \/ \E r \in Runs : PlayReject(r)
    \/ \E h \in Runs : CheckBufferAndDisplay(h)
    \/ \E s \in Streams, data \in Messages : RawTranscriptUpdate(s, data)
    \/ \E s \in Streams, data \in Messages : CorrectedTranscriptUpdate(s, data)
    \/ \E s \in Streams : ProcessingFinished(s)
    \/ \E s \in Streams : ProcessingError(s)
    \/ Disconnect
    \/ Connect
    \/ \E t \in ClockValues : AudioAdvance(t)
    \/ AudioError

Spec == Init /\ [][Next]_vars

\* The interval timer keeps firing while a handle is active.
FairSpec == Spec /\ WF_vars(\E h \in Runs : CheckBufferAndDisplay(h))

\* ------------------------------------------ starting and stopping, more clicks
\* The handlers that start and stop the scheduler, with a server that sends
\* no transcript, explored for more clicks: every behaviour of ControlSpec is
\* a behaviour of the page.
MaxClicks == 4
Clicks == 1..MaxClicks

ControlClick == run < MaxClicks /\ ProcessButtonClick

ControlNext ==
    \/ ControlClick
    \/ \E r \in Clicks : PlayResolve(r)
    \/ \E r \in Clicks : PlayReject(r)
    \/ \E s \in Clicks \X Clicks : ProcessingFinished(s)
    \/ \E s \in Clicks \X Clicks : ProcessingError(s)
    \/ Disconnect
    \/ Connect
    \/ AudioError

ControlSpec == Init /\ [][ControlNext]_vars

\* ------------------------------------- the timer-driven simulation, part_000
\* An earlier version of the page script: a click clears the three display
\* elements and lastRawText and sets six timeouts that show three raw and
\* three corrected sentences.  Times are in units of 250 ms.

\* The delay of the k-th setTimeout of a click: 500, 1000, ..., 3000 ms.
SimDelay(k) == 2 * k
SimPlaces == 1..6
Sentences == 1..3

RawText(n) ==
    IF n = 1 THEN "Hi, uhm it it custom servicer?"
    ELSE IF n = 2 THEN "Yes I needing help with my account"
    ELSE "the billing is incorrect i think"

CorrectedText(n) ==
    IF n = 1 THEN "Hi, is it customer service?"
    ELSE IF n = 2 THEN "Yes, I need help with my account."
    ELSE "I think the billing is incorrect."

\* What the simulation leaves alone: the state of script.js but the three
\* display elements, which both scripts write.
scriptVars == <<transcriptBuffer, displayInterval, timers, pendingPlays, failedPlays, run,
                audioVars, serverVars, buttonVars, status, released, inserted,
                errored>>

\* A timeout is <<time left, click, place>>; a time left below zero is a
\* callback that is late.  A callback runs when its time has come and every
\* timeout that was set before it with a delay not greater has run (HTML
\* timer initialisation steps); among the others that wait the platform
\* fixes no order, and a click may be handled while some of them wait.
SimDue == {t \in timeouts : t[1] <= 0}
SimBefore(u, t) ==
    /\ u[2] < t[2] \/ (u[2] = t[2] /\ u[3] < t[3])
    /\ SimDelay(u[3]) <= SimDelay(t[3])
SimFirst(t) == t \in SimDue /\ \A u \in timeouts : ~SimBefore(u, t)

\* processButton 'click' listener of the simulation (the button is never
\* disabled).
SimClick ==
    /\ simClicks < MaxRuns
    /\ simClicks' = simClicks + 1
    /\ rawTranscriptArea' = <<>>
    /\ correctedTranscriptArea' = <<>>
    /\ interleavedContainer' = <<>>
    /\ lastRawText' = NoRawText
    /\ timeouts' = timeouts \cup
           {<<SimDelay(k), simClicks + 1, k>> : k \in SimPlaces}
    /\ UNCHANGED scriptVars

\* The timeouts at 500, 1500 and 2500 ms: raw sentence n.
SimRawTimeout(n) ==
    \E t \in timeouts :
        /\ SimFirst(t)
        /\ t[3] = 2 * n - 1
        /\ timeouts' = timeouts \ {t}
        /\ rawTranscriptArea' = Append(rawTranscriptArea, <<"raw", RawText(n)>>)
        /\ interleavedContainer' =
               Append(interleavedContainer, <<"raw", RawText(n)>>)
        /\ lastRawText' = RawText(n)
        /\ UNCHANGED <<correctedTranscriptArea, simClicks, scriptVars>>

\* The timeouts at 1000, 2000 and 3000 ms: corrected sentence n, with a
\* bubble only when lastRawText is raw sentence n.
SimCorrectedTimeout(n) ==
    \E t \in timeouts :
        /\ SimFirst(t)
        /\ t[3] = 2 * n
        /\ timeouts' = timeouts \ {t}
        /\ correctedTranscriptArea' =
               Append(correctedTranscriptArea, <<"corrected", CorrectedText(n)>>)
        /\ interleavedContainer' =
               IF lastRawText = RawText(n)
               THEN Append(interleavedContainer, <<"corrected", CorrectedText(n)>>)
               ELSE interleavedContainer
        /\ UNCHANGED <<rawTranscriptArea, lastRawText, simClicks, scriptVars>>

\* 250 ms pass, whether or not a callback is due: the thread may be busy and
\* run the callbacks late.  Once every timeout is overdue more waiting changes
\* nothing (all of them wait, and a timeout set later is due after them), so
\* the times left stay as they are.
SimAdvance ==
    /\ timeouts' = IF \A t \in timeouts : t[1] <= 0
                   THEN timeouts
                   ELSE {<<t[1] - 1, t[2], t[3]>> : t \in timeouts}
    /\ UNCHANGED <<sinkVars, lastRawText, simClicks, scriptVars>>

SimNext ==
    \/ SimClick
    \/ \E n \in Sentences : SimRawTimeout(n)
    \/ \E n \in Sentences : SimCorrectedTimeout(n)
    \/ SimAdvance

SimSpec == Init /\ [][SimNext]_<<vars, simVars>>

\* ------------------------------------------------------------------ claims

Sorted(s) == \A i, j \in DOMAIN s : i < j => s[i].endTime <= s[j].endTime

RECURSIVE BagOfSeq(_)
BagOfSeq(s) ==
    IF s = <<>> THEN EmptyBag ELSE SetToBag({s[1]}) (+) BagOfSeq(Tail(s))

ItemValues ==
    {[type |-> ty, text |-> TextAt(e), endTime |-> e, srcRun |-> r] :
        ty \in Types, e \in EndTimes, r \in Runs}

InBuffer(x) == \E k \in DOMAIN transcriptBuffer : transcriptBuffer[k] = x

\* The items a step appended to the display (none when the step released
\* nothing or cleared the display).
NewlyReleased ==
    IF Len(released') > Len(released)
    THEN SubSeq(released', Len(released) + 1, Len(released'))
    ELSE <<>>

\* 'start_processing' was emitted by the play() promise of click r.
Emitted(r) == \E i \in DOMAIN emitted : emitted[i] = r

\* A step of the display interval's callback.
TickStep == \E h \in Runs : CheckBufferAndDisplay(h)

\* The session is Processing: a scheduler is active and no failure handler
\* has run since the last click.
Processing == displayInterval # NULL /\ ~errored

\* C1 (as claimed): within one run the sequence of items released to the
\* display is nondecreasing in endTime, whatever the arrival order and the
\* interleaving of arrivals with ticks.
C1_ReleasedNondecreasing == Sorted(released)

\* C1 (amended): the items one tick releases are nondecreasing in endTime
\* and none of them has a greater endTime than an item the tick leaves in
\* the buffer; release order departs from endTime order only for an item
\* that arrives after an item with a greater endTime was released.
C1_OrderedAmongBuffered ==
    [][/\ Sorted(NewlyReleased)
       /\ \A i \in DOMAIN NewlyReleased, k \in DOMAIN transcriptBuffer' :
              NewlyReleased[i].endTime <= transcriptBuffer'[k].endTime]_vars

C1_Witness ==
    /\ Len(released) >= 2
    /\ released[1].endTime < released[2].endTime
    /\ released[1].type # released[2].type
    /\ transcriptBuffer # <<>>

\* C2: every item a tick releases has endTime <= the currentTime the tick read.
C2_NotBeforeEndTime ==
    [][\A i \in DOMAIN NewlyReleased : NewlyReleased[i].endTime <= audioTime]_vars

C2_Witness ==
    /\ released # <<>>
    /\ released[Len(released)].endTime = audioTime
    /\ \E k \in DOMAIN transcriptBuffer : transcriptBuffer[k].endTime > audioTime

\* C3: with the timer firing, a buffered item whose endTime the clock has
\* reached is eventually released (it leaves the buffer), unless a failure
\* handler runs or the button resets the run.
C3_NoLoss ==
    \A x \in ItemValues :
        (InBuffer(x) /\ x.endTime <= audioTime /\ ~errored)
            ~> (~InBuffer(x) \/ errored)

\* C4: the bag of items inserted in the run is the bag released plus the bag
\* still buffered: nothing is released twice, nothing released was not inserted.
C4_NoDuplication ==
    inserted = BagOfSeq(released) (+) BagOfSeq(transcriptBuffer)

C4_Witness ==
    \E i \in DOMAIN released, k \in DOMAIN transcriptBuffer :
        released[i] = transcriptBuffer[k]

\* C5: a tick on a non-empty buffer that reads clock value t releases, in
\* ascending endTime order, exactly the buffered items with endTime <= t and
\* leaves the others, sorted, in the buffer.  A tick that finds the head of
\* the buffer not due releases nothing: then no buffered item may be due.
C5_TickReleasesExactlyReady ==
    /\ [](\A k \in DOMAIN transcriptBuffer :
              transcriptBuffer[1].endTime > audioTime
                  => transcriptBuffer[k].endTime > audioTime)
    /\ [][(TickStep /\ transcriptBuffer # <<>>) =>
            LET t == audioTime
                IsDue(x) == x.endTime <= t
                NotDue(x) == x.endTime > t
            IN  /\ released' = released \o SelectSeq(transcriptBuffer, IsDue)
                /\ Sorted(SelectSeq(transcriptBuffer, IsDue))
                /\ transcriptBuffer' = SelectSeq(transcriptBuffer, NotDue)
                /\ Sorted(transcriptBuffer')
                /\ \A k \in DOMAIN transcriptBuffer' :
                       transcriptBuffer'[k].endTime > t]_vars

\* The scenario of the claim: a(2.0), b(1.0), c(1.5) released as b, c, a.
C5_Witness ==
    /\ Len(released) = 3
    /\ released[1].type = "corrected" /\ released[1].text = "b"
    /\ released[2].type = "raw" /\ released[2].text = "c"
    /\ released[3].type = "raw" /\ released[3].text = "a"
    /\ audioTime = 21

\* C6: a tick clears the interval only when it leaves the buffer empty and
\* the audio has ended.
C6_SelfStopOnlyWhenDone ==
    [][(TickStep /\ displayInterval # NULL /\ displayInterval' = NULL) =>
          (transcriptBuffer' = <<>> /\ audioEnded)]_vars

\* A state only a self-stop produces: the run's interval was started, no
\* failure handler and no click cleared it, and it is cleared.
C6_Witness ==
    /\ Emitted(run)
    /\ pendingPlays = {}
    /\ ~errored
    /\ displayInterval = NULL
    /\ audioEnded
    /\ transcriptBuffer = <<>>
    /\ released # <<>>

\* C7: with the timer firing, "buffer empty and audio ended" leads to the
\* interval being cleared.
C7_StopsAfterEnd ==
    (transcriptBuffer = <<>> /\ audioEnded /\ displayInterval # NULL)
        ~> (displayInterval = NULL)

\* C8: between a failure handler and the next click the scheduler stays
\* stopped and nothing is released.
C8_ErroredIsTerminal ==
    [][(errored /\ errored') =>
          (displayInterval' = NULL /\ released' = released)]_vars

\* C9: a transcript message received while the session is not Processing
\* leaves the buffer unchanged.
C9_AcceptedOnlyWhileProcessing ==
    [][(sent' # sent /\ ~Processing) => transcriptBuffer' = transcriptBuffer]_vars

\* C10: every item on the display of the current run was sent for that run.
C10_NoCarryover == \A i \in DOMAIN released : released[i].srcRun = run

\* C11 (as claimed): the button is disabled in every state where the run is
\* Initializing (its play() is pending) or Processing (the display interval
\* is active) and no failure handler has run; it is never enabled while the
\* interval is still draining the buffer.
C11_DisabledWhileActive ==
    ((run \in pendingPlays \/ displayInterval # NULL) /\ ~errored)
        => buttonDisabled

\* A step of one of the four failure handlers.
FailureStep ==
    \/ Disconnect
    \/ AudioError
    \/ \E r \in Runs : PlayReject(r)
    \/ \E s \in Streams : ProcessingError(s)

\* C12: every failure handler (disconnect, play() rejection,
\* audio 'error', processing_error) sets an error status and leaves the
\* button enabled.
C12_FailureEnablesButton ==
    [][FailureStep => (status' = "error" /\ ~buttonDisabled')]_vars

\* C13: processing_finished leaves the interval handle, the active timers and
\* the buffer as they were and releases nothing itself; a tick that runs
\* after it still releases every buffered item the clock has reached.
C13_FinishedLeavesScheduler ==
    [][/\ (\E s \in Streams : ProcessingFinished(s)) =>
              /\ displayInterval' = displayInterval
              /\ timers' = timers
              /\ transcriptBuffer' = transcriptBuffer
              /\ released' = released
       /\ (status = "finished" /\ TickStep /\ transcriptBuffer # <<>>) =>
              LET IsDue(x) == x.endTime <= audioTime
              IN  released' = released \o SelectSeq(transcriptBuffer, IsDue)]_vars

\* processing_finished has run, the interval is still active and items are
\* still buffered.
C13_Witness ==
    /\ status = "finished"
    /\ ~errored
    /\ displayInterval # NULL
    /\ displayInterval \in timers
    /\ transcriptBuffer # <<>>

\* C14: in every reachable state, performing the stop (clearInterval of the
\* held handle, then displayInterval = null) a second time leaves the timers
\* as the first stop left them, and a stop performed while displayInterval
\* is null leaves the timers as they are.
C14_StopIdempotent ==
    LET once == StopTimers(timers, displayInterval)
        twice == StopTimers(once, NULL)
    IN  /\ twice = once
        /\ displayInterval = NULL => once = timers

\* A failure handler stopped the scheduler and a timer it did not hold is
\* still active: a further stop must leave it alone.
C14_Witness ==
    /\ errored
    /\ displayInterval = NULL
    /\ timers # {}

\* C15: ties are released in arrival order.  A transcript message is put in
\* the buffer after every buffered item whose endTime is equal (or smaller)
\* and before every item whose endTime is greater, the items already
\* buffered keeping their order; a tick moves a prefix of the buffer to the
\* end of the released sequence, keeping its order.  So of two items with
\* equal endTime the one that arrived first is released first, whatever
\* their channels and whatever is inserted in between.
C15_TiesInArrivalOrder ==
    [][/\ (sent' # sent /\ transcriptBuffer' # transcriptBuffer) =>
              \E p \in 1..(Len(transcriptBuffer) + 1) :
                  /\ Len(transcriptBuffer') = Len(transcriptBuffer) + 1
                  /\ SubSeq(transcriptBuffer', 1, p - 1) =
                         SubSeq(transcriptBuffer, 1, p - 1)
                  /\ SubSeq(transcriptBuffer', p + 1, Len(transcriptBuffer')) =
                         SubSeq(transcriptBuffer, p, Len(transcriptBuffer))
                  /\ \A i \in 1..(p - 1) :
                         transcriptBuffer[i].endTime <= transcriptBuffer'[p].endTime
                  /\ \A i \in p..Len(transcriptBuffer) :
                         transcriptBuffer[i].endTime > transcriptBuffer'[p].endTime
       /\ TickStep =>
              released' \o transcriptBuffer' = released \o transcriptBuffer]_vars

\* Two items with equal endTime on different channels were released one
\* after the other, and an item with another endTime after them.
C15_Witness ==
    /\ Len(released) = 3
    /\ released[1].endTime = released[2].endTime
    /\ released[1].type # released[2].type
    /\ released[3].endTime > released[2].endTime

\* C16: once the play() of the run on screen has rejected (its promise is
\* settled and made no 'start_processing' emit), no display interval is
\* running for the rest of the run.
C16_RejectedRunStaysAborted ==
    (run > 0 /\ run \notin pendingPlays /\ ~Emitted(run))
        => (displayInterval = NULL /\ timers = {})

\* C17: in every state between two handlers transcriptBuffer is sorted by
\* endTime ascending.
C17_BufferSorted ==
    \A k \in 1..(Len(transcriptBuffer) - 1) :
        transcriptBuffer[k].endTime <= transcriptBuffer[k + 1].endTime

\* Two messages with different end times are buffered, one of each
\* channel, after a tick has released an earlier item.
C17_Witness ==
    /\ Len(transcriptBuffer) = 2
    /\ transcriptBuffer[1].endTime < transcriptBuffer[2].endTime
    /\ transcriptBuffer[1].type # transcriptBuffer[2].type
    /\ released # <<>>

\* C18: at most one periodic timer is active, and an active timer is the
\* one displayInterval references.
C18_OneScheduler ==
    /\ Cardinality(timers) <= 1
    /\ \A h \in timers : h = displayInterval

\* C19: 'start_processing' is emitted only in a step in which the play()
\* promise of a click is resolved and a new display interval is started and
\* held in displayInterval (when it is the promise of the run on screen,
\* its audio is then playing); each click's promise leads to at most one
\* emit, and none before it has settled.
C19_StartAfterPlayAndInterval ==
    /\ [](/\ \A i, j \in DOMAIN emitted : emitted[i] = emitted[j] => i = j
          /\ \A i \in DOMAIN emitted :
                 emitted[i] \in 1..run /\ emitted[i] \notin pendingPlays)
    /\ [][emitted' # emitted =>
            \E r \in pendingPlays :
                /\ emitted' = Append(emitted, r)
                /\ r \notin pendingPlays'
                /\ displayInterval' # NULL
                /\ displayInterval' \in timers' \ timers
                /\ r = run => audioPlaying']_vars

\* Two clicks, each of which led to one emit, the second with its interval
\* held and the audio playing.
C19_Witness ==
    /\ emitted = <<1, 2>>
    /\ run = 2
    /\ displayInterval # NULL
    /\ timers = {displayInterval}
    /\ audioPlaying

\* A step of the processing_error handler.
ProcessingErrorStep == \E s \in Streams : ProcessingError(s)

\* C20 (as claimed): processing_error adds one entry to the display, the
\* error status: the two transcript areas and the merged feed are as they
\* were, and nothing leaves the buffer.
C20_ErrorIsStatusOnly ==
    [][ProcessingErrorStep =>
          /\ status' = "error"
          /\ rawTranscriptArea' = rawTranscriptArea
          /\ correctedTranscriptArea' = correctedTranscriptArea
          /\ interleavedContainer' = interleavedContainer
          /\ released' = released
          /\ transcriptBuffer' = transcriptBuffer]_vars

\* C20 (amended): processing_error sets the error status and appends one
\* line, marked as an error and not a transcript line of either channel,
\* to each of the two transcript areas; it adds no bubble to the merged
\* feed and releases nothing from the buffer.
C20_ErrorLineInBothAreas ==
    [][ProcessingErrorStep =>
          /\ status' = "error"
          /\ LET line == <<"error", "ERROR">>
             IN  /\ line[1] \notin Types
                 /\ rawTranscriptArea' = Append(rawTranscriptArea, line)
                 /\ correctedTranscriptArea' =
                        Append(correctedTranscriptArea, line)
          /\ interleavedContainer' = interleavedContainer
          /\ released' = released
          /\ transcriptBuffer' = transcriptBuffer]_vars

\* processing_error ran while three items were buffered: they are still
\* buffered, the interval is stopped and the error line ends the raw area.
C20_Witness ==
    /\ errored
    /\ status = "error"
    /\ Len(transcriptBuffer) = 3
    /\ displayInterval = NULL
    /\ rawTranscriptArea # <<>>
    /\ rawTranscriptArea[Len(rawTranscriptArea)][1] = "error"
    /\ interleavedContainer = <<>>

\* C21: a transcript message whose end_time is missing or not a valid
\* playback time, or whose text is missing, is not put in the buffer (and so
\* is never released): every buffered and every released item has a text
\* and a non-negative endTime.
C21_MalformedNeverBuffered ==
    /\ \A k \in DOMAIN transcriptBuffer : transcriptBuffer[k].endTime >= 0
    /\ \A i \in DOMAIN released : released[i].endTime >= 0

IsRawItem(x) == x.type = "raw"
IsCorrectedItem(x) == x.type = "corrected"
IsRawEntry(e) == e[1] = "raw"
IsCorrectedEntry(e) == e[1] = "corrected"

\* C22: a tick appends to the raw area one line per raw item it releases,
\* to the corrected area one line per corrected item, and to the merged
\* feed one bubble per item, and removes nothing from them; while no failure
\* handler has run, the merged feed lists the released items in release
\* order, its raw bubbles are the lines of the raw area and its corrected
\* bubbles the lines of the corrected area, in the same order.
C22_ChannelRouting ==
    /\ [][TickStep =>
            LET out == NewlyReleased
            IN  /\ Len(rawTranscriptArea') =
                       Len(rawTranscriptArea) + Len(SelectSeq(out, IsRawItem))
                /\ SubSeq(rawTranscriptArea', 1, Len(rawTranscriptArea)) =
                       rawTranscriptArea
                /\ Len(correctedTranscriptArea') =
                       Len(correctedTranscriptArea)
                           + Len(SelectSeq(out, IsCorrectedItem))
                /\ SubSeq(correctedTranscriptArea', 1,
                          Len(correctedTranscriptArea)) = correctedTranscriptArea
                /\ Len(interleavedContainer') =
                       Len(interleavedContainer) + Len(out)
                /\ SubSeq(interleavedContainer', 1, Len(interleavedContainer)) =
                       interleavedContainer]_vars
    /\ [](~errored =>
            /\ Len(interleavedContainer) = Len(released)
            /\ \A i \in DOMAIN released :
                   interleavedContainer[i] = <<released[i].type, released[i].text>>
            /\ SelectSeq(interleavedContainer, IsRawEntry) = rawTranscriptArea
            /\ SelectSeq(interleavedContainer, IsCorrectedEntry) =
                   correctedTranscriptArea)

\* Three items of both channels were released: corrected, raw, then a third.
C22_Witness ==
    /\ ~errored
    /\ Len(interleavedContainer) = 3
    /\ interleavedContainer[1][1] = "corrected"
    /\ interleavedContainer[2][1] = "raw"
    /\ rawTranscriptArea # <<>>
    /\ correctedTranscriptArea # <<>>

\* C23: in the simulation every corrected bubble of the merged feed comes
\* immediately after the raw bubble of its own sentence.
C23_CorrectedFollowsItsRaw ==
    \A i \in DOMAIN interleavedContainer :
        interleavedContainer[i][1] = "corrected" =>
            /\ i > 1
            /\ \E n \in Sentences :
                   /\ interleavedContainer[i][2] = CorrectedText(n)
                   /\ interleavedContainer[i - 1] = <<"raw", RawText(n)>>

====
